---- MODULE Spec2Model ----
(***************************************************************************)
(* The audio-streaming control layer of discordflow/utils.py as state      *)
(* machines on one asyncio event loop.                                     *)
(*                                                                         *)
(*   CancellableAsyncGenerator  gen, task, fetch, pos, cons, closer        *)
(*   AsyncTimedIterator         now, ati_task, ati_fetch, ati_pos,         *)
(*                              ati_cons, ati_log                          *)
(*   BackgroundTask             bg_task, bg_ops, bg_caller                 *)
(*   Waiter                     w_now, w_task, w_ops, w_caller             *)
(*   size_limit                 sl_pc, sl_src, sl_size, sl_k, sl_buf,      *)
(*                              sl_out                                     *)
(*   rate_limit                 rl_pc, rl_src, rl_k, rl_now, rl_start,     *)
(*                              rl_wake, rl_packet, rl_out, rl_req         *)
(*   Audio objects              au_heap, au_last                           *)
(*   Audio.to_wav / Audio.load  wav                                        *)
(*                                                                         *)
(* An asyncio Task is a record.  st is its position: "new" (created, first *)
(* step scheduled), "waiting" (suspended on an upstream future), "woken"   *)
(* (its wake-up is scheduled but has not run), "done".  mc is the pending  *)
(* cancellation request (Task._must_cancel, or a cancelled waiter whose    *)
(* CancelledError is delivered by the next step).  res is the outcome of a *)
(* done task: "val", "stop" (StopAsyncIteration), "cancelled".             *)
(***************************************************************************)
EXTENDS Integers, Sequences, FiniteSets, TLC

VARIABLES gen, task, fetch, pos, cons, closer,
          now, ati_task, ati_fetch, ati_pos, ati_cons, ati_log,
          bg_task, bg_ops, bg_caller,
          w_now, w_task, w_ops, w_caller,
          sl_pc, sl_src, sl_size, sl_k, sl_buf, sl_out,
          rl_pc, rl_src, rl_k, rl_now, rl_start, rl_wake, rl_packet, rl_out,
          rl_req,
          au_heap, au_last,
          wav,
          rg_reg, rg_skills, rg_initializers, rg_calls, rg_log

cagVars == <<gen, task, fetch, pos, cons, closer>>

atiVars == <<now, ati_task, ati_fetch, ati_pos, ati_cons, ati_log>>

bgVars == <<bg_task, bg_ops, bg_caller>>

wVars == <<w_now, w_task, w_ops, w_caller>>

slVars == <<sl_pc, sl_src, sl_size, sl_k, sl_buf, sl_out>>

rlVars == <<rl_pc, rl_src, rl_k, rl_now, rl_start, rl_wake, rl_packet, rl_out,
           rl_req>>

auVars == <<au_heap, au_last>>

wavVars == <<wav>>

rgVars == <<rg_reg, rg_skills, rg_initializers, rg_calls, rg_log>>

vars == <<cagVars, atiVars, bgVars, wVars, slVars, rlVars, auVars, wavVars, rgVars>>

nonCag == <<atiVars, bgVars, wVars, slVars, rlVars, auVars, wavVars, rgVars>>
nonAti == <<cagVars, bgVars, wVars, slVars, rlVars, auVars, wavVars, rgVars>>
nonBg == <<cagVars, atiVars, wVars, slVars, rlVars, auVars, wavVars, rgVars>>
nonW == <<cagVars, atiVars, bgVars, slVars, rlVars, auVars, wavVars, rgVars>>
nonSl == <<cagVars, atiVars, bgVars, wVars, rlVars, auVars, wavVars, rgVars>>
nonRl == <<cagVars, atiVars, bgVars, wVars, slVars, auVars, wavVars, rgVars>>
nonAu == <<cagVars, atiVars, bgVars, wVars, slVars, rlVars, wavVars, rgVars>>
nonWav == <<cagVars, atiVars, bgVars, wVars, slVars, rlVars, auVars, rgVars>>
nonRg == <<cagVars, atiVars, bgVars, wVars, slVars, rlVars, auVars, wavVars>>

\* Elements of the wrapped sequence: 1..SeqLen, then end-of-sequence.
SeqLen == 2
\* Fetch tasks ever created on one wrapper.
MaxFetch == 4
\* Calls of aclose() made by the closing task.
MaxClose == 2
\* Calls of AsyncTimedIterator.__anext__.
MaxCalls == 4
\* The clock stops here.
MaxTime == 3
\* Timeouts of wait_for are 0..MaxTimeout.
MaxTimeout == 1
\* An underlying fetch resolves 0..MaxDelay after its start.
MaxDelay == 2
\* Operations ever started on one BackgroundTask.
MaxStart == 2

\* set() calls of the Waiter that create a task
MaxSet == 2

\* last instant of the Waiter's clock
MaxWTime == 1

\* largest delay given to set()
MaxWDelay == 1

\* calls of the timed iterator over a sequence that may fail
MaxFailCalls == 3

\* packets of an input sequence of size_limit
MaxPackets == 3

\* frames of one input packet
MaxFrames == 2

\* largest chunk size given to size_limit
MaxSize == 2

\* packets of an upstream sequence of rate_limit
MaxRPackets == 3

\* frames of one packet given to rate_limit
MaxRFrames == 2

\* last instant of the clock of rate_limit
MaxRTime == 3

\* Audio objects that exist at once
MaxObjs == 3

\* largest index, step, frame count and factor given to an Audio method
MaxIdx == 2

\* bytes of data of an Audio written to a WAV stream
MaxBytes == 4

\* the number of skills registered in a Registry
MaxSkills == 2

\* the number of calls of initialize_skills and run_skill
MaxRegCalls == 3

\* channels of an Audio written to a WAV stream
MaxChannels == 2

Consumers == {1, 2}

NoTask == 0

NewTask == [st |-> "new", mc |-> FALSE, res |-> "none", val |-> 0]

IsDone(t) == t.st = "done"

\* tasks of a task table that have not finished
Outstanding(tbl) == {i \in 1..Len(tbl) : ~IsDone(tbl[i])}

\* Task.cancel(): no effect on a done task; otherwise the next step of the
\* task raises CancelledError inside it.  A task suspended on a pending
\* future has that future cancelled, which schedules the task's wake-up.
CancelTask(tbl, i) ==
    IF IsDone(tbl[i]) THEN tbl
    ELSE [tbl EXCEPT ![i].mc = TRUE,
                     ![i].st = IF @ = "waiting" THEN "woken" ELSE @]

\* asyncio.create_task(self.gen.__anext__())
CreateFetch(tbl) == Append(tbl, NewTask)

CagInit ==
    /\ gen = "gen"
    /\ task = [set |-> FALSE, id |-> NoTask]    \* __init__ never assigns self.task
    /\ fetch = <<>>
    /\ pos = 0
    /\ cons = [c \in Consumers |->
                 [pc |-> "idle", aw |-> NoTask, res |-> "none", val |-> 0,
                  afterClose |-> FALSE, cancel |-> "no"]]
    /\ closer = [pc |-> "idle", aw |-> NoTask, n |-> 0, ok |-> 0,
                 exc |-> "none", pending |-> FALSE, raced |-> NoTask,
                 cancel |-> "no"]

----
\* The first step of a fetch task: a cancellation requested before the task
\* ever ran is raised at once; otherwise the wrapped sequence starts to
\* produce its next element and suspends.
FetchStart(i) ==
    /\ i \in 1..Len(fetch)
    /\ fetch[i].st = "new"
    /\ fetch' = IF fetch[i].mc
                THEN [fetch EXCEPT ![i] = [st |-> "done", mc |-> FALSE,
                                           res |-> "cancelled", val |-> 0]]
                ELSE [fetch EXCEPT ![i].st = "waiting"]
    /\ UNCHANGED <<gen, task, pos, cons, closer>>
    /\ UNCHANGED nonCag

\* The upstream future of a suspended fetch completes: its wake-up is scheduled.
FetchReady(i) ==
    /\ i \in 1..Len(fetch)
    /\ fetch[i].st = "waiting"
    /\ fetch' = [fetch EXCEPT ![i].st = "woken"]
    /\ UNCHANGED <<gen, task, pos, cons, closer>>
    /\ UNCHANGED nonCag

\* The wake-up of a fetch runs: a pending cancellation wins over the upstream
\* result; otherwise the fetch ends with the next element or end-of-sequence.
FetchStep(i) ==
    /\ i \in 1..Len(fetch)
    /\ fetch[i].st = "woken"
    /\ IF fetch[i].mc
       THEN /\ fetch' = [fetch EXCEPT ![i] = [st |-> "done", mc |-> FALSE,
                                              res |-> "cancelled", val |-> 0]]
            /\ pos' = pos
       ELSE IF pos < SeqLen
       THEN /\ fetch' = [fetch EXCEPT ![i] = [st |-> "done", mc |-> FALSE,
                                              res |-> "val", val |-> pos + 1]]
            /\ pos' = pos + 1
       ELSE /\ fetch' = [fetch EXCEPT ![i] = [st |-> "done", mc |-> FALSE,
                                              res |-> "stop", val |-> 0]]
            /\ pos' = pos
    /\ UNCHANGED <<gen, task, cons, closer>>
    /\ UNCHANGED nonCag

\* The wrapped generator raises a failure instead of producing: the fetch
\* ends with it, also while a cancellation is being raised in it, and the
\* generator is finished.
FetchFail(i) ==
    /\ i \in 1..Len(fetch)
    /\ fetch[i].st = "woken"
    /\ fetch' = [fetch EXCEPT ![i] = [st |-> "done", mc |-> FALSE,
                                      res |-> "err", val |-> 0]]
    /\ pos' = SeqLen
    /\ UNCHANGED <<gen, task, cons, closer>>
    /\ UNCHANGED nonCag

----
\* `if self.gen:` of __anext__
anext_open == gen # "None"

\* CancellableAsyncGenerator.__anext__ up to its await.
anext(c) ==
    /\ cons[c].pc = "idle"
    /\ IF anext_open
       THEN /\ Len(fetch) < MaxFetch
            /\ fetch' = CreateFetch(fetch)
            /\ task' = [set |-> TRUE, id |-> Len(fetch) + 1]
            /\ cons' = [cons EXCEPT ![c] =
                          [pc |-> "awaiting", aw |-> Len(fetch) + 1,
                           res |-> "none", val |-> 0,
                           afterClose |-> closer.n > 0, cancel |-> "no"]]
       ELSE /\ cons' = [cons EXCEPT ![c] =
                          [pc |-> "idle", aw |-> NoTask,
                           res |-> "stop", val |-> 0,
                           afterClose |-> closer.n > 0, cancel |-> "no"]]
            /\ UNCHANGED <<fetch, task>>
    /\ UNCHANGED <<gen, pos, closer>>
    /\ UNCHANGED nonCag

anext_result_closedFirst(t) ==
    IF gen = "None" THEN "stop" ELSE t.res

\* What `return await self.task` gives the consumer: the task's result, and
\* StopAsyncIteration for a CancelledError when the wrapper is closed.
anext_result(t) ==
    IF t.res = "cancelled" /\ gen = "None" THEN "stop" ELSE t.res

\* __anext__ resumed by the end of the awaited task; finally self.task = None.
\* A consumer whose own cancellation is pending has CancelledError raised
\* at its await instead of the result of the task.
anext_resume(c) ==
    /\ cons[c].pc = "awaiting"
    /\ IsDone(fetch[cons[c].aw])
    /\ LET t == fetch[cons[c].aw]
           r == IF cons[c].cancel = "must"
                THEN anext_result([t EXCEPT !.res = "cancelled"])
                ELSE anext_result(t) IN
       cons' = [cons EXCEPT ![c].pc = "idle",
                            ![c].res = r,
                            ![c].val = IF r = "val" THEN t.val ELSE 0]
    /\ task' = [set |-> TRUE, id |-> NoTask]
    /\ UNCHANGED <<gen, fetch, pos, closer>>
    /\ UNCHANGED nonCag

cancel_stops_at_consumer(tbl, i) == tbl

\* Task.cancel() of a task that awaits another task cancels the awaited task
cancel_reaches_fetch(tbl, i) == CancelTask(tbl, i)

\* The task of the consumer is cancelled while its __anext__ awaits the
\* fetch: the cancellation goes to the fetch it waits for; when the fetch is
\* done already, it stays pending on the consumer itself (Task._must_cancel).
\* cancel records which of the two happened.
cancel_consumer(c) ==
    /\ cons[c].pc = "awaiting"
    /\ cons[c].cancel = "no"
    /\ IF IsDone(fetch[cons[c].aw])
       THEN /\ cons' = [cons EXCEPT ![c].cancel = "must"]
            /\ fetch' = fetch
       ELSE /\ cons' = [cons EXCEPT ![c].cancel = "waiter"]
            /\ fetch' = cancel_reaches_fetch(fetch, cons[c].aw)
    /\ UNCHANGED <<gen, task, pos, closer>>
    /\ UNCHANGED nonCag

aclose_closed_unchecked == FALSE

\* `if self.gen is None: return` of aclose
aclose_closed == gen = "None"

aclose_creates_always == TRUE

\* `self.task or asyncio.create_task(...)` of aclose: a task is created when
\* self.task is None
aclose_creates == task.id = NoTask

aclose_suspends_never(t) == FALSE

\* `await task` suspends the caller until the task is done
aclose_suspends(t) == ~IsDone(t)

\* The exception that leaves `with suppress(CancelledError): await task`.
aclose_raises(t) == IF t.res = "stop" THEN "StopAsyncIteration"
                    ELSE IF t.res = "err" THEN "err"
                    ELSE "none"

\* CancellableAsyncGenerator.aclose up to its await (also __aexit__, which
\* only awaits aclose).
aclose ==
    /\ closer.pc # "awaiting"
    /\ closer.n < MaxClose
    /\ IF aclose_closed
       THEN /\ closer' = [closer EXCEPT !.pc = "returned", !.n = @ + 1,
                                        !.ok = @ + 1, !.exc = "none"]
            /\ UNCHANGED <<gen, task, fetch>>
       ELSE IF ~task.set
       THEN \* self.task does not exist yet: AttributeError, nothing changed
            /\ closer' = [closer EXCEPT !.pc = "raised", !.n = @ + 1,
                                        !.exc = "AttributeError"]
            /\ UNCHANGED <<gen, task, fetch>>
       ELSE LET created == aclose_creates
                tbl == IF created THEN CreateFetch(fetch) ELSE fetch
                i   == IF created THEN Len(fetch) + 1 ELSE task.id
            IN  /\ created => Len(fetch) < MaxFetch
                /\ task' = [set |-> TRUE, id |-> NoTask]
                /\ fetch' = CancelTask(tbl, i)
                /\ gen' = "None"
                /\ closer' =
                     IF aclose_suspends(tbl[i])
                     THEN [closer EXCEPT !.pc = "awaiting", !.n = @ + 1,
                                         !.exc = "none", !.aw = i,
                                         !.pending = ~created]
                     ELSE \* the await of a done task does not suspend
                          [closer EXCEPT
                             !.pc = IF aclose_raises(tbl[i]) = "none"
                                    THEN "returned" ELSE "raised",
                             !.n = @ + 1,
                             !.ok = IF aclose_raises(tbl[i]) = "none"
                                    THEN @ + 1 ELSE @,
                             !.exc = aclose_raises(tbl[i]),
                             !.aw = i, !.pending = FALSE,
                             !.raced = IF tbl[i].res = "val" THEN i ELSE @]
    /\ UNCHANGED <<pos, cons>>
    /\ UNCHANGED nonCag

\* The task that awaits task i in `with suppress(CancelledError): await task`
\* is cancelled itself: the cancellation goes to task i; when task i is done
\* already, it stays pending on the caller (Task._must_cancel).
CancelWaiting(c, tbl) ==
    IF IsDone(tbl[c.aw]) THEN [c EXCEPT !.cancel = "must"]
    ELSE [c EXCEPT !.cancel = "waiter"]

\* What leaves `with suppress(CancelledError): await task` in the caller c,
\* given what the await of the task alone gives (out) and what a normal
\* return is called (ret): a cancellation pending on the caller is raised at
\* the await as CancelledError, which the suppress swallows.
suppressed(c, out, ret) == IF c.cancel = "must" THEN ret ELSE out

\* the task that called aclose() is cancelled while it awaits
cancel_closer ==
    /\ closer.pc = "awaiting"
    /\ closer.cancel = "no"
    /\ closer' = CancelWaiting(closer, fetch)
    /\ fetch' = CancelTask(fetch, closer.aw)
    /\ UNCHANGED <<gen, task, pos, cons>>
    /\ UNCHANGED nonCag

\* aclose resumed by the end of the task it cancelled; wake-ups run in the
\* order in which the waiters attached, the consumer of the task first.
aclose_resume ==
    /\ closer.pc = "awaiting"
    /\ IsDone(fetch[closer.aw])
    /\ \A c \in Consumers : ~(cons[c].pc = "awaiting" /\ cons[c].aw = closer.aw)
    /\ LET t == fetch[closer.aw]
           e == suppressed(closer, aclose_raises(t), "none") IN
       closer' = [closer EXCEPT
                    !.pc = IF e = "none" THEN "returned" ELSE "raised",
                    !.ok = IF e = "none" THEN @ + 1 ELSE @,
                    !.exc = e,
                    !.cancel = "no"]
    /\ UNCHANGED <<gen, task, fetch, pos, cons>>
    /\ UNCHANGED nonCag

CagNext(Cs) ==
    \/ \E c \in Cs : anext(c)
    \/ \E c \in Cs : anext_resume(c)
    \/ aclose
    \/ aclose_resume
    \/ \E i \in 1..MaxFetch : FetchStart(i)
    \/ \E i \in 1..MaxFetch : FetchReady(i)
    \/ \E i \in 1..MaxFetch : FetchStep(i)

----
\* AsyncTimedIterator on a clock `now`.  A fetch of the underlying iterator
\* is a task that resolves `delay` time units after its creation.
\* ati_log is the history of the finished __anext__ calls.

\* What a call of __anext__ gave its caller.
LogEntry(kind, v, c) ==
    [kind |-> kind, val |-> v, t0 |-> c.t0, t1 |-> now, timeout |-> c.timeout,
     held |-> c.held, created |-> c.created]

AtiInit ==
    /\ now = 0
    /\ ati_task = NoTask
    /\ ati_fetch = <<>>
    /\ ati_pos = 0
    /\ ati_cons = [pc |-> "idle", aw |-> NoTask, t0 |-> 0, timeout |-> 0,
                   held |-> 0, created |-> FALSE]
    /\ ati_log = <<>>

\* The underlying fetch resolves: the next element, or end-of-sequence.
AtiFetchDone(i) ==
    /\ i \in 1..Len(ati_fetch)
    /\ ati_fetch[i].st = "running"
    /\ ati_fetch[i].readyAt <= now
    /\ IF ati_pos < SeqLen
       THEN /\ ati_fetch' = [ati_fetch EXCEPT ![i].st = "done", ![i].res = "val",
                                              ![i].val = ati_pos + 1]
            /\ ati_pos' = ati_pos + 1
       ELSE /\ ati_fetch' = [ati_fetch EXCEPT ![i].st = "done", ![i].res = "stop"]
            /\ ati_pos' = ati_pos
    /\ UNCHANGED <<now, ati_task, ati_cons, ati_log>>
    /\ UNCHANGED nonAti

\* The underlying fetch fails: the wrapped iterator raised, and is finished.
AtiFetchFail(i) ==
    /\ i \in 1..Len(ati_fetch)
    /\ ati_fetch[i].st = "running"
    /\ ati_fetch[i].readyAt <= now
    /\ ati_fetch' = [ati_fetch EXCEPT ![i].st = "done", ![i].res = "err"]
    /\ ati_pos' = SeqLen
    /\ UNCHANGED <<now, ati_task, ati_cons, ati_log>>
    /\ UNCHANGED nonAti

ati_creates_always == TRUE

\* `self.task or asyncio.create_task(...)` of __anext__
ati_creates == ati_task = NoTask

wait_for_cancels_task(tbl, i) ==
    [tbl EXCEPT ![i].st = "done", ![i].res = "cancelled"]

\* What the timeout of wait_for(asyncio.shield(task), timeout) does to the
\* task table: wait_for cancels the future it was given, which is the shield;
\* the task behind the shield is not cancelled.
wait_for_cancels(tbl, i) == tbl

ati_retained_dropped(i) == NoTask

\* `self.task = task` of the TimeoutError handler
ati_retained(i) == i

\* The end of a call: its log entry; the consumer is idle again.
AtiFinish(kind, v, c) ==
    /\ ati_log' = Append(ati_log, LogEntry(kind, v, c))
    /\ ati_cons' = [c EXCEPT !.pc = "idle"]

\* AsyncTimedIterator.__anext__ up to the await of wait_for.  wait_for with a
\* timeout <= 0 does not wait: the result of a done task, else TimeoutError.
ati_anext(timeout, delay) ==
    /\ ati_cons.pc = "idle"
    /\ Len(ati_log) < MaxCalls
    /\ LET created == ati_creates
           tbl == IF created
                  THEN Append(ati_fetch, [st |-> "running", readyAt |-> now + delay,
                                          res |-> "none", val |-> 0])
                  ELSE ati_fetch
           i == IF created THEN Len(ati_fetch) + 1 ELSE ati_task
           t == tbl[i]
           c == [pc |-> "waiting", aw |-> i, t0 |-> now, timeout |-> timeout,
                 held |-> IF ati_task # NoTask /\ ati_fetch[ati_task].res = "val"
                          THEN ati_fetch[ati_task].val ELSE 0,
                 created |-> created]
       IN  /\ created => Len(ati_fetch) < MaxFetch
           /\ ~created => delay = 0
           /\ IF timeout > 0
              THEN /\ ati_task' = NoTask
                   /\ ati_fetch' = tbl
                   /\ ati_cons' = c
                   /\ ati_log' = ati_log
              ELSE IF IsDone(t)
              THEN /\ ati_task' = NoTask
                   /\ ati_fetch' = tbl
                   /\ AtiFinish(t.res, t.val, c)
              ELSE /\ ati_task' = ati_retained(i)
                   /\ ati_fetch' = wait_for_cancels(tbl, i)
                   /\ AtiFinish("sentinel", 0, c)
    /\ UNCHANGED <<now, ati_pos>>
    /\ UNCHANGED nonAti

\* wait_for returns the result of the task (or raises StopAsyncIteration).
ati_return ==
    /\ ati_cons.pc = "waiting"
    /\ IsDone(ati_fetch[ati_cons.aw])
    /\ AtiFinish(ati_fetch[ati_cons.aw].res, ati_fetch[ati_cons.aw].val, ati_cons)
    /\ UNCHANGED <<now, ati_task, ati_fetch, ati_pos>>
    /\ UNCHANGED nonAti

\* wait_for raises TimeoutError: the shield is cancelled, not the task;
\* self.task = task; the sentinel is returned.
ati_timeout ==
    /\ ati_cons.pc = "waiting"
    /\ ati_cons.t0 + ati_cons.timeout <= now
    /\ ~IsDone(ati_fetch[ati_cons.aw])
    /\ ati_task' = ati_retained(ati_cons.aw)
    /\ ati_fetch' = wait_for_cancels(ati_fetch, ati_cons.aw)
    /\ AtiFinish("sentinel", 0, ati_cons)
    /\ UNCHANGED <<now, ati_pos>>
    /\ UNCHANGED nonAti

\* The task of the consumer is cancelled while __anext__ awaits wait_for:
\* CancelledError leaves __anext__, which handles TimeoutError only, so
\* self.task stays None; the shield keeps the cancellation from the fetch.
ati_cancel ==
    /\ ati_cons.pc = "waiting"
    /\ ati_task' = ati_task
    /\ ati_fetch' = ati_fetch
    /\ AtiFinish("cancelled", 0, ati_cons)
    /\ UNCHANGED <<now, ati_pos>>
    /\ UNCHANGED nonAti

\* Time passes when nothing is due: no fetch to resolve, no waiting call to
\* return or to time out.  An idle consumer may let time pass.
Tick ==
    /\ now < MaxTime
    /\ \A i \in 1..Len(ati_fetch) :
         ati_fetch[i].st = "running" => ati_fetch[i].readyAt > now
    /\ ati_cons.pc = "waiting" =>
         /\ ~IsDone(ati_fetch[ati_cons.aw])
         /\ ati_cons.t0 + ati_cons.timeout > now
    /\ now' = now + 1
    /\ UNCHANGED <<ati_task, ati_fetch, ati_pos, ati_cons, ati_log>>
    /\ UNCHANGED nonAti

NextATI ==
    \/ \E timeout \in 0..MaxTimeout, delay \in 0..MaxDelay : ati_anext(timeout, delay)
    \/ ati_return
    \/ ati_timeout
    \/ \E i \in 1..MaxFetch : AtiFetchDone(i)
    \/ Tick

----
\* BackgroundTask.  The operation handed to start() runs inside wrap() as a
\* task of bg_ops.  res is how the operation ended: "ok", "err" (an Exception,
\* logged by wrap and re-raised) or "cancelled"; val is the value the
\* operation returned; logged tells whether wrap logged it.  how, out and ret
\* record the stop() that took the operation: how is "result" (the task was
\* done) or "cancel" (stop cancelled it), out is what that stop() gave its
\* caller and ret the value it returned.

\* None, the result of a task whose coroutine has no return statement
NoValue == 0

NewOp == [st |-> "new", mc |-> FALSE, res |-> "none", val |-> NoValue,
          logged |-> FALSE, how |-> "none", out |-> "none", ret |-> NoValue]

BgInit ==
    /\ bg_task = NoTask                         \* __init__: self.task = None
    /\ bg_ops = <<>>
    /\ bg_caller = [pc |-> "idle", aw |-> NoTask, last |-> "none",
                    ret |-> NoValue, raced |-> NoTask, racedLast |-> "none",
                    scope |-> "none", body |-> "none", cancel |-> "no"]

\* wrap: `except Exception` logs; CancelledError is not an Exception
wrap_logs(r) == r = "err"

\* wrap: `await coro` is not returned, the task's result is None
wrap_return(v) == NoValue

\* The task of operation i ends with outcome r; operation i returns the
\* value i when it succeeds.
OpEnd(tbl, i, r) ==
    [tbl EXCEPT ![i].st = "done", ![i].mc = FALSE, ![i].res = r,
                ![i].val = IF r = "ok" THEN i ELSE NoValue,
                ![i].logged = wrap_logs(r)]

\* The first step of wrap(coro).
OpStart(i) ==
    /\ i \in 1..Len(bg_ops)
    /\ bg_ops[i].st = "new"
    /\ bg_ops' = IF bg_ops[i].mc
                 THEN OpEnd(bg_ops, i, "cancelled")
                 ELSE [bg_ops EXCEPT ![i].st = "waiting"]
    /\ UNCHANGED <<bg_task, bg_caller>>
    /\ UNCHANGED nonBg

\* What the operation awaits completes: its wake-up is scheduled.
OpReady(i) ==
    /\ i \in 1..Len(bg_ops)
    /\ bg_ops[i].st = "waiting"
    /\ bg_ops' = [bg_ops EXCEPT ![i].st = "woken"]
    /\ UNCHANGED <<bg_task, bg_caller>>
    /\ UNCHANGED nonBg

\* The wake-up of the operation runs and the operation ends: with a value,
\* with a failure, or cancelled.  A pending cancellation is raised in it by
\* this step (it ends cancelled, fails while unwinding, or absorbs the
\* cancellation and returns); without one it may still end cancelled, by
\* raising CancelledError itself.
OpStep(i) ==
    /\ i \in 1..Len(bg_ops)
    /\ bg_ops[i].st = "woken"
    /\ \E r \in {"ok", "err", "cancelled"} : bg_ops' = OpEnd(bg_ops, i, r)
    /\ UNCHANGED <<bg_task, bg_caller>>
    /\ UNCHANGED nonBg

bg_start_held_never == FALSE

\* start: `if self.task is not None`
bg_start_held == bg_task # NoTask

\* BackgroundTask.start, called by the caller c
bg_start_by(c) ==
    /\ c.pc = "idle"
    /\ IF bg_start_held
       THEN /\ bg_caller' = [c EXCEPT !.last = "RuntimeError",
                                              !.ret = NoValue]
            /\ UNCHANGED <<bg_task, bg_ops>>
       ELSE /\ Len(bg_ops) < MaxStart
            /\ bg_ops' = Append(bg_ops, NewOp)
            /\ bg_task' = Len(bg_ops) + 1
            /\ bg_caller' = [c EXCEPT !.last = "started", !.ret = NoValue]
    /\ UNCHANGED nonBg

\* BackgroundTask.start
bg_start == bg_start_by(bg_caller)

\* What `return task.result()` and `await task` under suppress(CancelledError)
\* give the caller of stop().
bg_result(t) == IF t.res = "ok" THEN "returned"
                ELSE IF t.res = "err" THEN "raised_err"
                ELSE "raised_cancelled"

\* the value of `return task.result()`
bg_value(t) == IF t.res = "ok" THEN wrap_return(t.val) ELSE NoValue

bg_awaited_suppressed(t) == "returned"

bg_awaited(t) == IF t.res = "err" THEN "raised_err" ELSE "returned"

bg_stop_kept(i) == i

\* stop: `task, self.task = self.task, None`
bg_stop_cleared(i) == NoTask

bg_stop_resumable_always(t) == TRUE

\* stop: `await task` resumes when the task is done
bg_stop_resumable(t) == IsDone(t)

bg_stop_idle_returns == "returned"

\* stop: `task.done()` when self.task was None raises AttributeError
bg_stop_idle == "AttributeError"

\* BackgroundTask.stop up to its await, called by the caller c
bg_stop_by(c) ==
    /\ c.pc = "idle"
    /\ bg_task' = bg_stop_cleared(bg_task)
    /\ IF bg_task = NoTask
       THEN \* None.done(): AttributeError
            /\ bg_caller' = [c EXCEPT !.last = bg_stop_idle, !.ret = NoValue]
            /\ bg_ops' = bg_ops
       ELSE IF IsDone(bg_ops[bg_task])
       THEN /\ bg_caller' = [c EXCEPT
                               !.last = bg_result(bg_ops[bg_task]),
                               !.ret = bg_value(bg_ops[bg_task]),
                               !.aw = bg_task,
                               !.raced = bg_task,
                               !.racedLast = bg_result(bg_ops[bg_task])]
            /\ bg_ops' = [bg_ops EXCEPT
                            ![bg_task].how = "result",
                            ![bg_task].out = bg_result(bg_ops[bg_task]),
                            ![bg_task].ret = bg_value(bg_ops[bg_task])]
       ELSE /\ bg_ops' = [CancelTask(bg_ops, bg_task) EXCEPT
                            ![bg_task].how = "cancel"]
            /\ bg_caller' = [c EXCEPT !.pc = "awaiting", !.aw = bg_task,
                                      !.last = "none", !.ret = NoValue]
    /\ UNCHANGED nonBg

\* BackgroundTask.stop up to its await
bg_stop == bg_stop_by(bg_caller)

\* the task that called stop() is cancelled while it awaits
bg_cancel_caller ==
    /\ bg_caller.pc = "awaiting"
    /\ bg_caller.cancel = "no"
    /\ bg_caller' = CancelWaiting(bg_caller, bg_ops)
    /\ bg_ops' = CancelTask(bg_ops, bg_caller.aw)
    /\ UNCHANGED bg_task
    /\ UNCHANGED nonBg

\* stop() resumed by the end of the task it cancelled
bg_stop_resume ==
    /\ bg_caller.pc = "awaiting"
    /\ bg_stop_resumable(bg_ops[bg_caller.aw])
    /\ LET r == suppressed(bg_caller, bg_awaited(bg_ops[bg_caller.aw]),
                           "returned") IN
       /\ bg_caller' = [bg_caller EXCEPT !.pc = "idle", !.last = r,
                                         !.cancel = "no"]
       /\ bg_ops' = [bg_ops EXCEPT ![bg_caller.aw].out = r]
    /\ UNCHANGED bg_task
    /\ UNCHANGED nonBg

\* background_task(coro).  scope is the position of the caller in the
\* context manager ("body": inside the with block, "exit": in or past the
\* finally clause), body is how the with block ended.

\* the scope has been left: `await task.stop()` has returned or raised
ScopeLeft == bg_caller.scope = "exit" /\ bg_caller.pc = "idle"

\* background_task up to its yield: a new BackgroundTask starts the operation
ScopeEnter ==
    /\ bg_caller.scope = "none" \/ ScopeLeft
    /\ bg_task = NoTask
    /\ bg_start_by([bg_caller EXCEPT !.scope = "body", !.body = "none"])

\* the with block ends, normally or with an error, and the finally clause
\* calls stop()
ScopeExit(b) ==
    /\ bg_caller.scope = "body"
    /\ bg_stop_by([bg_caller EXCEPT !.scope = "exit", !.body = b])

NextScope ==
    \/ ScopeEnter
    \/ \E b \in {"ok", "err"} : ScopeExit(b)
    \/ bg_stop_resume
    \/ \E i \in 1..MaxStart : OpStart(i)
    \/ \E i \in 1..MaxStart : OpReady(i)
    \/ \E i \in 1..MaxStart : OpStep(i)

NextBG ==
    \/ bg_start
    \/ bg_stop
    \/ bg_stop_resume
    \/ \E i \in 1..MaxStart : OpStart(i)
    \/ \E i \in 1..MaxStart : OpReady(i)
    \/ \E i \in 1..MaxStart : OpStep(i)

----
\* Waiter: a BackgroundTask whose operation is wait(delay, callback).  w_now
\* is the loop clock.  An entry of w_ops is the task of one set(): ph is the
\* statement of wait() it is at ("sleep" or "callback"), setAt the time of
\* set(), due the time its sleep ends, calls the number of times it invoked
\* the callback, calledAt the time of the invocation, stopAt the time of the
\* stop() that took it.

NewWait(delay) ==
    [st |-> "new", mc |-> FALSE, res |-> "none", ph |-> "sleep",
     setAt |-> w_now, delay |-> delay, due |-> 0, calls |-> 0, calledAt |-> 0,
     stopAt |-> 0, how |-> "none", out |-> "none"]

WInit ==
    /\ w_now = 0
    /\ w_task = NoTask
    /\ w_ops = <<>>
    /\ w_caller = [pc |-> "idle", aw |-> NoTask, last |-> "none"]

wait_due_now(t0, delay) == t0

\* asyncio.sleep(delay) begun at t0 ends at t0 + delay
wait_due(t0, delay) == t0 + delay

\* The first step of wrap(wait(delay, callback)): a cancellation requested
\* before it ends the task; otherwise wait() reaches asyncio.sleep(delay),
\* which yields once for a delay that is not positive and sets a timer
\* otherwise.
WaitStart(i) ==
    /\ i \in 1..Len(w_ops)
    /\ w_ops[i].st = "new"
    /\ w_ops' = IF w_ops[i].mc
                THEN [w_ops EXCEPT ![i].st = "done", ![i].mc = FALSE,
                                   ![i].res = "cancelled"]
                ELSE [w_ops EXCEPT
                        ![i].st = IF w_ops[i].delay <= 0 THEN "woken"
                                  ELSE "waiting",
                        ![i].due = wait_due(w_now, w_ops[i].delay)]
    /\ UNCHANGED <<w_now, w_task, w_caller>>
    /\ UNCHANGED nonW

\* The timer of the sleep fires: the wake-up of wait() is scheduled.
WaitTimer(i) ==
    /\ i \in 1..Len(w_ops)
    /\ w_ops[i].st = "waiting"
    /\ w_ops[i].ph = "sleep"
    /\ w_now >= w_ops[i].due
    /\ w_ops' = [w_ops EXCEPT ![i].st = "woken"]
    /\ UNCHANGED <<w_now, w_task, w_caller>>
    /\ UNCHANGED nonW

\* wait() resumed after the sleep: a pending cancellation is raised at the
\* sleep; otherwise the callback is invoked, and it suspends or ends.
WaitWake(i) ==
    /\ i \in 1..Len(w_ops)
    /\ w_ops[i].st = "woken"
    /\ w_ops[i].ph = "sleep"
    /\ IF w_ops[i].mc
       THEN w_ops' = [w_ops EXCEPT ![i].st = "done", ![i].mc = FALSE,
                                   ![i].res = "cancelled"]
       ELSE \E r \in {"suspend", "ok", "err"} :
              w_ops' = [w_ops EXCEPT
                          ![i].ph = "callback",
                          ![i].calls = @ + 1,
                          ![i].calledAt = w_now,
                          ![i].st = IF r = "suspend" THEN "waiting" ELSE "done",
                          ![i].res = IF r = "suspend" THEN "none" ELSE r]
    /\ UNCHANGED <<w_now, w_task, w_caller>>
    /\ UNCHANGED nonW

\* What the callback awaits completes.
CallbackReady(i) ==
    /\ i \in 1..Len(w_ops)
    /\ w_ops[i].st = "waiting"
    /\ w_ops[i].ph = "callback"
    /\ w_ops' = [w_ops EXCEPT ![i].st = "woken"]
    /\ UNCHANGED <<w_now, w_task, w_caller>>
    /\ UNCHANGED nonW

\* The callback resumes and ends, and wait() with it.
CallbackStep(i) ==
    /\ i \in 1..Len(w_ops)
    /\ w_ops[i].st = "woken"
    /\ w_ops[i].ph = "callback"
    /\ \E r \in {"ok", "err", "cancelled"} :
         w_ops' = [w_ops EXCEPT ![i].st = "done", ![i].mc = FALSE,
                                ![i].res = r]
    /\ UNCHANGED <<w_now, w_task, w_caller>>
    /\ UNCHANGED nonW

w_start_held_unfinished == w_task # NoTask /\ ~IsDone(w_ops[w_task])

\* start: `if self.task is not None`, for the Waiter
w_start_held == w_task # NoTask

\* Waiter.set: self.start(self.wait(delay, callback))
w_set(delay) ==
    /\ w_caller.pc = "idle"
    /\ IF w_start_held
       THEN /\ w_caller' = [w_caller EXCEPT !.last = "RuntimeError"]
            /\ UNCHANGED <<w_task, w_ops>>
       ELSE /\ Len(w_ops) < MaxSet
            /\ w_ops' = Append(w_ops, NewWait(delay))
            /\ w_task' = Len(w_ops) + 1
            /\ w_caller' = [w_caller EXCEPT !.last = "started"]
    /\ UNCHANGED w_now
    /\ UNCHANGED nonW

\* Waiter.stop (BackgroundTask.stop) up to its await
w_stop ==
    /\ w_caller.pc = "idle"
    /\ w_task' = bg_stop_cleared(w_task)
    /\ IF w_task = NoTask
       THEN /\ w_caller' = [w_caller EXCEPT !.last = "AttributeError"]
            /\ w_ops' = w_ops
       ELSE IF IsDone(w_ops[w_task])
       THEN /\ w_caller' = [w_caller EXCEPT !.last = bg_result(w_ops[w_task]),
                                            !.aw = w_task]
            /\ w_ops' = [w_ops EXCEPT
                           ![w_task].how = "result",
                           ![w_task].stopAt = w_now,
                           ![w_task].out = bg_result(w_ops[w_task])]
       ELSE /\ w_ops' = [CancelTask(w_ops, w_task) EXCEPT
                           ![w_task].how = "cancel",
                           ![w_task].stopAt = w_now]
            /\ w_caller' = [w_caller EXCEPT !.pc = "awaiting", !.aw = w_task,
                                            !.last = "none"]
    /\ UNCHANGED w_now
    /\ UNCHANGED nonW

\* stop() resumed by the end of the task it cancelled
w_stop_resume ==
    /\ w_caller.pc = "awaiting"
    /\ bg_stop_resumable(w_ops[w_caller.aw])
    /\ w_caller' = [w_caller EXCEPT !.pc = "idle",
                                    !.last = bg_awaited(w_ops[w_caller.aw])]
    /\ w_ops' = [w_ops EXCEPT
                   ![w_caller.aw].out = bg_awaited(w_ops[w_caller.aw])]
    /\ UNCHANGED <<w_now, w_task>>
    /\ UNCHANGED nonW

\* Time passes.  The loop may run a timer later than it is due.
WTick ==
    /\ w_now < MaxWTime
    /\ w_now' = w_now + 1
    /\ UNCHANGED <<w_task, w_ops, w_caller>>
    /\ UNCHANGED nonW

NextWaiter ==
    \/ \E delay \in 0..MaxWDelay : w_set(delay)
    \/ w_stop
    \/ w_stop_resume
    \/ \E i \in 1..MaxSet : WaitStart(i)
    \/ \E i \in 1..MaxSet : WaitTimer(i)
    \/ \E i \in 1..MaxSet : WaitWake(i)
    \/ \E i \in 1..MaxSet : CallbackReady(i)
    \/ \E i \in 1..MaxSet : CallbackStep(i)
    \/ WTick

----
\* Audio: a record of channels, width, rate and data, the data a sequence of
\* bytes.  An optional value (None or a value) is a sequence of length 0 or 1.

None == <<>>

Some(x) == <<x>>

\* the formats the input packets are drawn from: mono and stereo
Formats == {[channels |-> 1, width |-> 1, rate |-> 8],
            [channels |-> 2, width |-> 1, rate |-> 8]}

\* Audio.framewidth
framewidth(a) == a.channels * a.width

\* Audio.__len__
AudioLen(a) == Len(a.data) \div framewidth(a)

\* Audio.__bool__
AudioBool(a) == AudioLen(a) > 0

\* Audio.clone
clone(a, data) ==
    [channels |-> a.channels, width |-> a.width, rate |-> a.rate, data |-> data]

\* Audio.__add__ raises ValueError unless this holds
Compatible(a, b) ==
    ~(b.channels # a.channels \/ b.width # a.width \/ b.rate # a.rate)

\* Audio.__add__ for compatible operands
AudioAdd(a, b) == clone(a, a.data \o b.data)

\* `x and x * framewidth`: None and 0 are returned as they are
ScaleIndex(x, fw) ==
    IF x = None THEN None
    ELSE IF x[1] = 0 THEN Some(0)
    ELSE Some(x[1] * fw)

Min(x, y) == IF x <= y THEN x ELSE y

\* data[start:stop:step] of Python for indices that are None or not negative
\* and a step that is None or positive
PySlice(data, start, stop, step) ==
    LET lo == IF start = None THEN 0 ELSE Min(start[1], Len(data))
        hi == IF stop = None THEN Len(data) ELSE Min(stop[1], Len(data))
        st == IF step = None THEN 1 ELSE step[1]
        n == IF hi > lo THEN (hi - lo + st - 1) \div st ELSE 0
    IN [k \in 1..n |-> data[lo + (k - 1) * st + 1]]

\* Audio.__getitem__(slice(start, stop, step))
getitem(a, start, stop, step) ==
    clone(a, PySlice(a.data, ScaleIndex(start, framewidth(a)),
                             ScaleIndex(stop, framewidth(a)),
                             ScaleIndex(step, framewidth(a))))

\* the truth value of buf, which is None or an Audio
BufBool(b) == b # None /\ AudioBool(b[1])

\* packet j of an input: frames frames of format f, every byte labelled with
\* the packet and its position in it
Packet(j, f, frames) ==
    [channels |-> f.channels, width |-> f.width, rate |-> f.rate,
     data |-> [b \in 1..(frames * f.channels * f.width) |-> <<j, b>>]]

\* size_limit.  sl_src is the input sequence, sl_k the next packet the
\* `async for` takes, sl_buf the local buf, sl_out the chunks yielded so far.

SlInit ==
    /\ sl_pc = "new"
    /\ sl_src = <<>>
    /\ sl_size = 1
    /\ sl_k = 1
    /\ sl_buf = None
    /\ sl_out = <<>>

\* size_limit(audio_iter, size) is called on an input of at most MaxPackets
\* packets and its body starts: buf = None
size_limit ==
    /\ sl_pc = "new"
    /\ \E n \in 0..MaxPackets :
         \E fmts \in [1..n -> Formats], lens \in [1..n -> 0..MaxFrames],
            size \in 1..MaxSize :
           /\ sl_src' = [j \in 1..n |-> Packet(j, fmts[j], lens[j])]
           /\ sl_size' = size
    /\ sl_pc' = "run"
    /\ sl_buf' = None
    /\ UNCHANGED <<sl_k, sl_out>>
    /\ UNCHANGED nonSl

\* the while loop is not (or no longer) entered
SlLoopOver == IF sl_buf = None THEN TRUE ELSE AudioLen(sl_buf[1]) < sl_size

\* `async for packet in audio_iter` takes a packet:
\* buf = buf + packet if buf else packet
SlPacket ==
    /\ sl_pc = "run"
    /\ SlLoopOver
    /\ sl_k <= Len(sl_src)
    /\ sl_k' = sl_k + 1
    /\ IF BufBool(sl_buf)
       THEN IF Compatible(sl_buf[1], sl_src[sl_k])
            THEN /\ sl_buf' = Some(AudioAdd(sl_buf[1], sl_src[sl_k]))
                 /\ sl_pc' = sl_pc
            ELSE /\ sl_pc' = "ValueError"
                 /\ sl_buf' = sl_buf
       ELSE /\ sl_buf' = Some(sl_src[sl_k])
            /\ sl_pc' = sl_pc
    /\ UNCHANGED <<sl_src, sl_size, sl_out>>
    /\ UNCHANGED nonSl

sl_rest_whole(b, size) == b

\* `buf = buf[size:]`
sl_rest(b, size) == getitem(b, Some(size), None, None)

\* one turn of `while len(buf) >= size`: yield buf[:size]; buf = buf[size:]
SlYield ==
    /\ sl_pc = "run"
    /\ ~SlLoopOver
    /\ sl_out' = Append(sl_out, getitem(sl_buf[1], None, Some(sl_size), None))
    /\ sl_buf' = Some(sl_rest(sl_buf[1], sl_size))
    /\ UNCHANGED <<sl_pc, sl_src, sl_size, sl_k>>
    /\ UNCHANGED nonSl

sl_tail_always(b) == b

sl_tail_dropped(b) == <<>>

\* `if buf: yield buf` as the sequence of chunks it yields
sl_tail(b) == IF BufBool(b) THEN b ELSE <<>>

\* the input is exhausted
SlEnd ==
    /\ sl_pc = "run"
    /\ SlLoopOver
    /\ sl_k > Len(sl_src)
    /\ sl_out' = sl_out \o sl_tail(sl_buf)
    /\ sl_pc' = "done"
    /\ UNCHANGED <<sl_src, sl_size, sl_k, sl_buf>>
    /\ UNCHANGED nonSl

NextSize ==
    \/ size_limit
    \/ SlPacket
    \/ SlYield
    \/ SlEnd

----
\* rate_limit.  rl_now is time.perf_counter(), counted in frame periods of the
\* stream (1 / rate seconds), so that Audio.duration, len(self) / self.rate
\* seconds, is the number of frames.  rl_src is the upstream sequence, rl_k
\* the next packet the `async for` takes, rl_wake the local when_to_wake,
\* rl_packet the local packet (None while it is unbound), rl_out the packets
\* yielded with the time of each yield, rl_req the times at which a packet was
\* requested from upstream.

\* Audio.duration in frame periods
duration(a) == AudioLen(a)

RECURSIVE SumDuration(_)
SumDuration(q) ==
    IF Len(q) = 0 THEN 0 ELSE duration(Head(q)) + SumDuration(Tail(q))

\* the format of the stream given to rate_limit
StreamFormat == [channels |-> 1, width |-> 1, rate |-> 8]

RlInit ==
    /\ rl_pc = "new"
    /\ rl_src = <<>>
    /\ rl_k = 1
    /\ rl_now = 0
    /\ rl_start = 0
    /\ rl_wake = 0
    /\ rl_packet = None
    /\ rl_out = <<>>
    /\ rl_req = <<>>

\* rate_limit(audio_iter) is called on an upstream of at most MaxRPackets
\* packets and its body starts: when_to_wake = time.perf_counter(), and the
\* `async for` requests the first packet.
rate_limit ==
    /\ rl_pc = "new"
    /\ \E n \in 0..MaxRPackets : \E lens \in [1..n -> 0..MaxRFrames] :
         rl_src' = [j \in 1..n |-> Packet(j, StreamFormat, lens[j])]
    /\ rl_pc' = "fetch"
    /\ rl_start' = rl_now
    /\ rl_wake' = rl_now
    /\ rl_req' = <<rl_now>>
    /\ UNCHANGED <<rl_k, rl_now, rl_packet, rl_out>>
    /\ UNCHANGED nonRl

\* upstream gives a packet: `yield packet`
RlPacket ==
    /\ rl_pc = "fetch"
    /\ rl_k <= Len(rl_src)
    /\ rl_packet' = Some(rl_src[rl_k])
    /\ rl_out' = Append(rl_out, [pkt |-> rl_src[rl_k], at |-> rl_now])
    /\ rl_k' = rl_k + 1
    /\ rl_pc' = "yielded"
    /\ UNCHANGED <<rl_src, rl_now, rl_start, rl_wake, rl_req>>
    /\ UNCHANGED nonRl

rl_advance_reset(wake, t, d) == t + d

\* when_to_wake += packet.duration
rl_advance(wake, t, d) == wake + d

rl_to_sleep_none(wake, t) == 0

\* to_sleep = when_to_wake - time.perf_counter()
rl_to_sleep(wake, t) == wake - t

\* The consumer asks for the next packet: the generator resumes after the
\* yield, advances when_to_wake and sleeps.  asyncio.sleep with a delay that
\* is not positive returns without waiting, and the next packet is
\* requested.
RlResume ==
    /\ rl_pc = "yielded"
    /\ rl_wake' = rl_advance(rl_wake, rl_now, duration(rl_packet[1]))
    /\ IF rl_to_sleep(rl_wake', rl_now) <= 0
       THEN /\ rl_pc' = "fetch"
            /\ rl_req' = Append(rl_req, rl_now)
       ELSE /\ rl_pc' = "sleeping"
            /\ rl_req' = rl_req
    /\ UNCHANGED <<rl_src, rl_k, rl_now, rl_start, rl_packet, rl_out>>
    /\ UNCHANGED nonRl

\* the sleep ends and the next packet is requested
RlWake ==
    /\ rl_pc = "sleeping"
    /\ rl_now >= rl_wake
    /\ rl_pc' = "fetch"
    /\ rl_req' = Append(rl_req, rl_now)
    /\ UNCHANGED <<rl_src, rl_k, rl_now, rl_start, rl_wake, rl_packet, rl_out>>
    /\ UNCHANGED nonRl

\* `if packet: yield packet` after the loop, as the yields it makes
rl_tail(p, t) == IF AudioBool(p) THEN <<[pkt |-> p, at |-> t]>> ELSE <<>>

\* upstream has ended: the loop is left and `if packet` is evaluated, which
\* raises UnboundLocalError when the loop never bound packet
RlEnd ==
    /\ rl_pc = "fetch"
    /\ rl_k > Len(rl_src)
    /\ IF rl_packet = None
       THEN /\ rl_pc' = "UnboundLocalError"
            /\ rl_out' = rl_out
       ELSE /\ rl_pc' = "done"
            /\ rl_out' = rl_out \o rl_tail(rl_packet[1], rl_now)
    /\ UNCHANGED <<rl_src, rl_k, rl_now, rl_start, rl_wake, rl_packet, rl_req>>
    /\ UNCHANGED nonRl

\* Time passes: upstream, the consumer and the loop may each be late.
RlTick ==
    /\ rl_now < MaxRTime
    /\ rl_now' = rl_now + 1
    /\ UNCHANGED <<rl_pc, rl_src, rl_k, rl_start, rl_wake, rl_packet, rl_out,
                   rl_req>>
    /\ UNCHANGED nonRl

NextRate ==
    \/ rate_limit
    \/ RlPacket
    \/ RlResume
    \/ RlWake
    \/ RlEnd
    \/ RlTick

----
\* Audio objects.  au_heap holds the objects, an object is referred to by its
\* index; au_last records the last method call: its name, the references of
\* its operands (ra, rb) and of its result (rr, NoRef when it raised), the
\* exception it raised, the values of the operands before the call (a, b) and
\* its other arguments.  The bytes of a constructed Audio are labels; the
\* arithmetic of audioop is not computed: a converted sample is the
\* sequence of the labels it was computed from.

NoRef == 0

AuCall(op, ra, rb, rr, err, a, b, args) ==
    [op |-> op, ra |-> ra, rb |-> rb, rr |-> rr, err |-> err, a |-> a, b |-> b,
     args |-> args]

AuInit ==
    /\ au_heap = <<>>
    /\ au_last = AuCall("none", NoRef, NoRef, NoRef, "none",
                        Packet(0, StreamFormat, 0), Packet(0, StreamFormat, 0),
                        <<>>)

Refs == 1..Len(au_heap)

\* a method returned the new object v
AuReturnNew(op, ra, rb, v, args) ==
    /\ Len(au_heap) < MaxObjs
    /\ au_heap' = Append(au_heap, v)
    /\ au_last' = AuCall(op, ra, rb, Len(au_heap) + 1, "none",
                         au_heap[ra], au_heap[rb], args)
    /\ UNCHANGED nonAu

\* a method raised
AuRaise(op, ra, rb, err, args) ==
    /\ au_heap' = au_heap
    /\ au_last' = AuCall(op, ra, rb, NoRef, err, au_heap[ra], au_heap[rb], args)
    /\ UNCHANGED nonAu

\* Audio(channels, width, rate, data) with whole frames of data
AuNew ==
    /\ Len(au_heap) < MaxObjs
    /\ \E f \in Formats, n \in 0..MaxFrames :
         LET v == Packet(Len(au_heap) + 1, f, n) IN
         /\ au_heap' = Append(au_heap, v)
         /\ au_last' = AuCall("new", NoRef, NoRef, Len(au_heap) + 1, "none",
                              v, v, <<>>)
    /\ UNCHANGED nonAu

\* a + b
AuConcat(ra, rb) ==
    /\ ra \in Refs /\ rb \in Refs
    /\ IF Compatible(au_heap[ra], au_heap[rb])
       THEN AuReturnNew("concat", ra, rb, AudioAdd(au_heap[ra], au_heap[rb]),
                        <<>>)
       ELSE AuRaise("concat", ra, rb, "ValueError", <<>>)

\* audioop.add(x, y, width) sample by sample, for width 1
audioop_add(x, y) == [k \in 1..Len(x) |-> x[k] \o y[k]]

\* a.combine(b): audioop.add raises audioop.error unless the two data have
\* one length; nothing else is tested
AuCombine(ra, rb) ==
    /\ ra \in Refs /\ rb \in Refs
    /\ IF Len(au_heap[ra].data) = Len(au_heap[rb].data)
       THEN AuReturnNew("combine", ra, rb,
                clone(au_heap[ra],
                      audioop_add(au_heap[ra].data, au_heap[rb].data)), <<>>)
       ELSE AuRaise("combine", ra, rb, "audioop.error", <<>>)

\* the values an index of a slice takes: omitted, zero or positive
Indices == {None} \cup {Some(i) : i \in 0..MaxIdx}

\* the values the step of a slice takes: omitted or positive
Steps == {None} \cup {Some(i) : i \in 1..MaxIdx}

\* a[start:stop:step]
AuSlice(ra) ==
    /\ ra \in Refs
    /\ \E start \in Indices, stop \in Indices, step \in Steps :
         AuReturnNew("slice", ra, ra, getitem(au_heap[ra], start, stop, step),
                     <<start, stop, step>>)

\* a.silence(frames): b'\x00' * (frames * self.framewidth)
AuSilence(ra) ==
    /\ ra \in Refs
    /\ \E n \in 0..MaxIdx :
         AuReturnNew("silence", ra, ra,
             clone(au_heap[ra],
                   [k \in 1..(n * framewidth(au_heap[ra])) |-> <<0>>]), <<n>>)

\* a * factor: audioop.mul
AuMul(ra) ==
    /\ ra \in Refs
    /\ \E factor \in 1..MaxIdx :
         AuReturnNew("mul", ra, ra,
             clone(au_heap[ra],
                   [k \in 1..Len(au_heap[ra].data) |->
                        au_heap[ra].data[k] \o <<factor>>]), <<factor>>)

\* what a.clear() does to the objects: self.data = b''
ClearAt(h, r) == [h EXCEPT ![r].data = <<>>]

\* a.clear()
AuClear(ra) ==
    /\ ra \in Refs
    /\ au_heap' = ClearAt(au_heap, ra)
    /\ au_last' = AuCall("clear", ra, ra, NoRef, "none", au_heap[ra],
                         au_heap[ra], <<>>)
    /\ UNCHANGED nonAu

\* a method returned an object that exists already
AuReturnSelf(op, ra) ==
    /\ au_heap' = au_heap
    /\ au_last' = AuCall(op, ra, ra, ra, "none", au_heap[ra], au_heap[ra], <<>>)
    /\ UNCHANGED nonAu

\* a.to_mono(): self for one channel; audioop.tomono for two, which raises
\* unless the data is whole frames
AuToMono(ra) ==
    /\ ra \in Refs
    /\ LET a == au_heap[ra] IN
       IF a.channels = 1 THEN AuReturnSelf("to_mono", ra)
       ELSE IF a.channels # 2 THEN AuRaise("to_mono", ra, ra, "ValueError", <<>>)
       ELSE IF Len(a.data) % (2 * a.width) # 0
       THEN AuRaise("to_mono", ra, ra, "audioop.error", <<>>)
       ELSE AuReturnNew("to_mono", ra, ra,
                [channels |-> 1, width |-> a.width, rate |-> a.rate,
                 data |-> [k \in 1..(Len(a.data) \div 2) |->
                               a.data[2 * k - 1] \o a.data[2 * k]]], <<>>)

\* a.to_stereo(): self for two channels; audioop.tostereo for one
AuToStereo(ra) ==
    /\ ra \in Refs
    /\ LET a == au_heap[ra] IN
       IF a.channels = 2 THEN AuReturnSelf("to_stereo", ra)
       ELSE IF a.channels # 1
       THEN AuRaise("to_stereo", ra, ra, "ValueError", <<>>)
       ELSE AuReturnNew("to_stereo", ra, ra,
                [channels |-> 2, width |-> a.width, rate |-> a.rate,
                 data |-> [k \in 1..(2 * Len(a.data)) |->
                               a.data[(k + 1) \div 2]]], <<>>)

\* the sample rates: the rate of a constructed Audio and its double
Rates == {StreamFormat.rate, 2 * StreamFormat.rate}

\* audioop.ratecv(data, width, channels, old, new, None) for width 1 and the
\* rates of Rates: the same frames for one rate; every second frame for half
\* the rate; for the double rate every frame, with between two frames a
\* frame interpolated from both
ratecv(data, channels, old, new) ==
    LET n == Len(data) \div channels
        at(f, c) == data[(f - 1) * channels + c]
        chan(k) == ((k - 1) % channels) + 1
        frame(k) == ((k - 1) \div channels) + 1
    IN  IF new = old THEN data
        ELSE IF new < old
        THEN [k \in 1..(((n + 1) \div 2) * channels) |->
                  at(2 * frame(k) - 1, chan(k))]
        ELSE [k \in 1..((IF n = 0 THEN 0 ELSE 2 * n - 1) * channels) |->
                  IF frame(k) % 2 = 1
                  THEN at((frame(k) + 1) \div 2, chan(k))
                  ELSE at(frame(k) \div 2, chan(k))
                       \o at(frame(k) \div 2 + 1, chan(k))]

\* a.to_rate(rate): a new Audio of the given rate around audioop.ratecv,
\* which raises unless the data is whole frames
AuToRate(ra) ==
    /\ ra \in Refs
    /\ \E rate \in Rates :
         LET a == au_heap[ra] IN
         IF Len(a.data) % framewidth(a) # 0
         THEN AuRaise("to_rate", ra, ra, "audioop.error", <<rate>>)
         ELSE AuReturnNew("to_rate", ra, ra,
                  [channels |-> a.channels, width |-> a.width, rate |-> rate,
                   data |-> ratecv(a.data, a.channels, a.rate, rate)],
                  <<rate>>)

NextAudio ==
    \/ AuNew
    \/ \E ra \in 1..MaxObjs, rb \in 1..MaxObjs : AuConcat(ra, rb)
    \/ \E ra \in 1..MaxObjs, rb \in 1..MaxObjs : AuCombine(ra, rb)
    \/ \E ra \in 1..MaxObjs : AuSlice(ra)
    \/ \E ra \in 1..MaxObjs : AuSilence(ra)
    \/ \E ra \in 1..MaxObjs : AuMul(ra)
    \/ \E ra \in 1..MaxObjs : AuClear(ra)
    \/ \E ra \in 1..MaxObjs : AuToMono(ra)
    \/ \E ra \in 1..MaxObjs : AuToStereo(ra)
    \/ \E ra \in 1..MaxObjs : AuToRate(ra)

----
\* Audio.to_wav and Audio.load.  wav holds one Audio (a), the stream to_wav
\* made of it (file: the bytes and the read position) and the Audio load
\* read back from the stream (out).

\* n as k bytes, least significant first (struct.pack '<H', '<L')
LE(n, k) == [i \in 1..k |-> (n \div (256 ^ (i - 1))) % 256]

\* the number that the bytes of q stand for, least significant first
RECURSIVE UnLE(_)
UnLE(q) == IF Len(q) = 0 THEN 0 ELSE Head(q) + 256 * UnLE(Tail(q))

\* the sample widths wave.Wave_write.setsampwidth accepts
SampleWidths == 1..4

\* the Audio given to to_wav: MaxChannels channels at most, a width of wave,
\* two rates, and any number of bytes up to MaxBytes
WavAudios ==
    {[channels |-> c, width |-> w, rate |-> r,
      data |-> [b \in 1..n |-> <<1, b>>]] :
        c \in 1..MaxChannels, w \in SampleWidths,
        r \in {StreamFormat.rate, 1000 * StreamFormat.rate}, n \in 0..MaxBytes}

WavInit ==
    wav = [pc |-> "new", a |-> Packet(0, StreamFormat, 0),
           file |-> [buf |-> <<>>, pos |-> 0],
           out |-> Packet(0, StreamFormat, 0)]

\* an Audio is at hand
WavNew ==
    /\ wav.pc = "new"
    /\ \E a \in WavAudios : wav' = [wav EXCEPT !.pc = "made", !.a = a]
    /\ UNCHANGED nonWav

\* Audio.to_wav: the RIFF header wave writes for these parameters, patched
\* at close to the number of bytes written, then the data, and wav.seek(0)
to_wav(a) ==
    [buf |-> <<"RIFF">> \o LE(36 + Len(a.data), 4) \o <<"WAVE", "fmt ">>
             \o LE(16, 4) \o LE(1, 2) \o LE(a.channels, 2) \o LE(a.rate, 4)
             \o LE(a.channels * a.rate * a.width, 4)
             \o LE(a.channels * a.width, 2) \o LE(a.width * 8, 2)
             \o <<"data">> \o LE(Len(a.data), 4) \o a.data,
     pos |-> 0]

\* a.to_wav()
CallToWav ==
    /\ wav.pc = "made"
    /\ wav' = [wav EXCEPT !.pc = "written", !.file = to_wav(wav.a)]
    /\ UNCHANGED nonWav

\* wave.Wave_read: the sample width of a header that gives bits per sample
wav_sampwidth_bits(bits) == bits

wav_sampwidth(bits) == (bits + 7) \div 8

\* Audio.load(fp): wave.open reads the header from the position of the
\* stream; readframes(2 ** 32) reads the bytes of the data chunk
load(f) ==
    LET q == SubSeq(f.buf, f.pos + 1, Len(f.buf))
        size == UnLE(SubSeq(q, 29, 32))
    IN  [channels |-> UnLE(SubSeq(q, 14, 15)),
         width |-> wav_sampwidth(UnLE(SubSeq(q, 26, 27))),
         rate |-> UnLE(SubSeq(q, 16, 19)),
         data |-> SubSeq(q, 33, 32 + size)]

\* Audio.load(stream)
CallLoad ==
    /\ wav.pc = "written"
    /\ wav' = [wav EXCEPT !.pc = "loaded", !.out = load(wav.file)]
    /\ UNCHANGED nonWav

NextWav == WavNew \/ CallToWav \/ CallLoad

----
\* Registry.  A dict is the sequence of its items in insertion order.
\* rg_reg lists the uses of the skill decorator, rg_skills is self.skills and
\* rg_initializers is self.initializers (both hold the index in rg_reg of the
\* function they store), rg_log is the record of the initializers and
\* handlers that have been called.

RgInit ==
    /\ rg_reg = <<>>
    /\ rg_skills = <<>>
    /\ rg_initializers = <<>>
    /\ rg_calls = 0
    /\ rg_log = <<>>

\* func.__name__ of the i-th decorated function
FuncName(i) == <<"func", i>>

\* the explicit name the i-th use of the decorator may pass as name=
GivenName(i) == <<"name", i>>

\* `key in d`
DictHas(d, key) == \E p \in DOMAIN d : d[p].key = key

\* d[key]
DictGet(d, key) == d[CHOOSE p \in DOMAIN d : d[p].key = key].val

\* d[key] = val: a key the dict has keeps its place
DictSet(d, key, val) ==
    IF DictHas(d, key)
    THEN [p \in DOMAIN d |-> IF d[p].key = key THEN [key |-> key, val |-> val]
                                               ELSE d[p]]
    ELSE Append(d, [key |-> key, val |-> val])

\* del d[key]
DictDel(d, key) == SelectSeq(d, LAMBDA e : e.key # key)

\* the key of `self.initializers[name] = init`
init_key(name, func) == name

\* @registry.skill(name=name, init=init) applied to the next function
skill(name, init) ==
    LET i == Len(rg_reg) + 1
        skill_name == IF name # None THEN name ELSE FuncName(i)
    IN  /\ rg_reg' = Append(rg_reg, [name |-> name, init |-> init])
        /\ rg_initializers' =
               IF init THEN DictSet(rg_initializers, init_key(name, FuncName(i)), i)
                       ELSE rg_initializers
        /\ rg_skills' = DictSet(rg_skills, skill_name, i)
        /\ UNCHANGED <<rg_calls, rg_log>>
        /\ UNCHANGED nonRg

\* a module is imported: its skills are registered, each with or without an
\* explicit name and with or without an initializer
RgRegister ==
    /\ Len(rg_reg) < MaxSkills
    /\ \E named \in BOOLEAN, init \in BOOLEAN :
         skill(IF named THEN GivenName(Len(rg_reg) + 1) ELSE None, init)

InitEvent(i, ok) == [ev |-> "init", i |-> i, ok |-> ok]

RunEvent(i) == [ev |-> "run", i |-> i, ok |-> TRUE]

\* Registry.initialize_skills: the initializers are called in the order of
\* the dict, each one that returns is deleted; the f-th of them raises, or
\* none does (f = Len + 1)
initialize_skills ==
    /\ rg_calls < MaxRegCalls
    /\ rg_calls' = rg_calls + 1
    /\ \E f \in 1..(Len(rg_initializers) + 1) :
         /\ rg_log' = rg_log \o
               [p \in 1..(IF f > Len(rg_initializers) THEN f - 1 ELSE f) |->
                   InitEvent(rg_initializers[p].val, p < f)]
         /\ rg_initializers' =
               SubSeq(rg_initializers, f, Len(rg_initializers))
    /\ UNCHANGED <<rg_reg, rg_skills>>
    /\ UNCHANGED nonRg

\* the names run_skill is called with
SkillNames == {FuncName(i) : i \in 1..MaxSkills} \cup
              {GivenName(i) : i \in 1..MaxSkills}

\* Registry.run_skill(skill, ctx); ok tells whether the initializer, if one
\* is called, returns
run_skill(name, ok) ==
    /\ rg_calls < MaxRegCalls
    /\ rg_calls' = rg_calls + 1
    /\ IF DictHas(rg_skills, name)
       THEN IF DictHas(rg_initializers, name)
            THEN IF ok
                 THEN /\ rg_initializers' = DictDel(rg_initializers, name)
                      /\ rg_log' = rg_log \o
                            <<InitEvent(DictGet(rg_initializers, name), TRUE),
                              RunEvent(DictGet(rg_skills, name))>>
                 ELSE /\ rg_initializers' = rg_initializers
                      /\ rg_log' = Append(rg_log,
                            InitEvent(DictGet(rg_initializers, name), FALSE))
            ELSE /\ rg_initializers' = rg_initializers
                 /\ rg_log' = Append(rg_log, RunEvent(DictGet(rg_skills, name)))
       ELSE UNCHANGED <<rg_initializers, rg_log>>
    /\ UNCHANGED <<rg_reg, rg_skills>>
    /\ UNCHANGED nonRg

NextRegistry ==
    \/ RgRegister
    \/ initialize_skills
    \/ \E name \in SkillNames, ok \in BOOLEAN : run_skill(name, ok)

----
Init == CagInit /\ AtiInit /\ BgInit /\ WInit /\ SlInit /\ RlInit /\ AuInit /\ WavInit /\ RgInit

\* one consumer and one closing task
NextCAG == CagNext({1})

SpecCAG == Init /\ [][NextCAG]_vars

\* two consumers whose advances may overlap, and one closing task
NextCAG2 == CagNext(Consumers)

SpecCAG2 == Init /\ [][NextCAG2]_vars

\* one consumer of a timed iterator
SpecTimed == Init /\ [][NextATI]_vars

\* a supervised background task and its owner
SpecBG == Init /\ [][NextBG]_vars

\* the Waiter alone
SpecWaiter == Init /\ [][NextWaiter]_vars

\* Both wrappers over a sequence that may fail.  The two wrappers share no
\* state: a behaviour exercises one of them, the other stays as constructed.
\* The timed iterator is called at most MaxFailCalls times.
CagUnused ==
    /\ fetch = <<>>
    /\ closer.n = 0
    /\ \A c \in Consumers : cons[c].pc = "idle" /\ cons[c].res = "none"

AtiUnused ==
    /\ now = 0
    /\ ati_fetch = <<>>
    /\ ati_log = <<>>
    /\ ati_cons.pc = "idle"

NextFail ==
    \/ AtiUnused /\ (NextCAG \/ \E i \in 1..MaxFetch : FetchFail(i))
    \/ CagUnused /\
         \/ Len(ati_log) < MaxFailCalls /\
              \E timeout \in 0..MaxTimeout, delay \in 0..MaxDelay :
                ati_anext(timeout, delay)
         \/ ati_return
         \/ ati_timeout
         \/ Tick
         \/ \E i \in 1..MaxFailCalls : AtiFetchFail(i)
         \/ \E i \in 1..MaxFailCalls : AtiFetchDone(i)

SpecFail == Init /\ [][NextFail]_vars

\* size_limit over every bounded input
SpecSize == Init /\ [][NextSize]_vars

\* rate_limit over every bounded upstream
SpecRate == Init /\ [][NextRate]_vars

\* method calls on Audio objects
SpecAudio == Init /\ [][NextAudio]_vars

\* an Audio written to a WAV stream and read back
SpecWav == Init /\ [][NextWav]_vars

\* one consumer that may be cancelled while it waits, and one closing task
NextConsumerCancel == NextCAG \/ cancel_consumer(1)

SpecConsumerCancel == Init /\ [][NextConsumerCancel]_vars

\* the timed iterator with a consumer that may be cancelled while it waits
NextTimedCancel == NextATI \/ ati_cancel

SpecTimedCancel == Init /\ [][NextTimedCancel]_vars

\* operations run in background_task scopes, one after the other
SpecScope == Init /\ [][NextScope]_vars

\* a wrapper and a supervised task whose closing and stopping tasks may be
\* cancelled while they wait
NextCallerCancel == NextCAG \/ NextBG \/ cancel_closer \/ bg_cancel_caller

SpecCallerCancel == Init /\ [][NextCallerCancel]_vars

SpecRegistry == Init /\ [][NextRegistry]_vars

\* a step of the body of size_limit
SlStep == SlPacket \/ SlYield \/ SlEnd

\* size_limit iterated to its end: once it is called the consumer keeps asking
\* for the next chunk and the input, which is finite, delivers every packet
SpecSizeLive == Init /\ [][NextSize]_vars /\ WF_vars(SlStep)

\* a wrapper with its consumer and closing task, and a supervised task with
\* its owner, on the same loop
NextCancel == NextCAG \/ NextBG

SpecCancel == Init /\ [][NextCancel]_vars

----
\* C1: when aclose() is called while a fetch is pending, it returns only
\* after that fetch has been cancelled and is done; whenever aclose() has
\* returned, no fetch task of the wrapper is still running.
C1_CloseWaitsForFetch ==
    closer.pc = "returned" =>
        /\ Outstanding(fetch) = {}
        /\ closer.pending => /\ IsDone(fetch[closer.aw])
                             /\ fetch[closer.aw].res = "cancelled"

C1_Witness == closer.pc = "returned" /\ closer.pending

\* C2: every __anext__ issued after aclose() has been called signals
\* end-of-sequence and starts no fetch.
C2_AdvanceAfterCloseEnds ==
    cons[1].afterClose => /\ cons[1].pc = "idle"
                          /\ cons[1].res = "stop"

\* C3: with one consumer and one closing task, at most one fetch task of the
\* wrapped sequence is outstanding.
C3_SingleFetch == Cardinality(Outstanding(fetch)) <= 1

C3_Witness ==
    /\ closer.pc = "awaiting"
    /\ cons[1].pc = "awaiting"
    /\ closer.aw = cons[1].aw
    /\ Cardinality(Outstanding(fetch)) = 1

\* C4: leaving the scope always closes the wrapper successfully, also when
\* __anext__ was never called: once aclose() has ended, it has returned
\* normally, the wrapper is closed and holds no pending fetch.
C4_ScopeExitCloses ==
    (closer.n > 0 /\ closer.pc # "awaiting") =>
        /\ closer.pc = "returned"
        /\ gen = "None"
        /\ task.set /\ task.id = NoTask
        /\ Outstanding(fetch) = {}

\* C5: an aclose() after a completed aclose() changes nothing of the wrapper,
\* creates and cancels no fetch, and returns normally.
C5_CloseIdempotent ==
    [][(closer.ok >= 1 /\ closer'.n = closer.n + 1) =>
          /\ UNCHANGED <<gen, task, fetch, pos, cons>>
          /\ closer'.pc = "returned"
          /\ closer'.exc = "none"]_vars

C5_Witness == closer.ok = 2

C7_AdvanceAttaches ==
    \A c1, c2 \in Consumers :
        (cons[c1].pc = "awaiting" /\ cons[c2].pc = "awaiting") =>
            cons[c1].aw = cons[c2].aw

IsVal(e) == e.kind = "val"

\* the elements returned so far by the timed iterator
Vals == SelectSeq(ati_log, IsVal)

\* the fetch the timed iterator will await next
AtiHeld(i) == ati_task = i \/ (ati_cons.pc = "waiting" /\ ati_cons.aw = i)

\* C8: for any pattern of timeouts the elements returned by the timed
\* iterator are the elements of the underlying sequence, in order, each
\* once; no fetch is lost (an undelivered one is held for the next call),
\* and end-of-sequence comes only after all elements.
C8_ElementsExactlyOnce ==
    /\ \A k \in 1..Len(Vals) : Vals[k].val = k
    /\ \A i \in 1..Len(ati_fetch) :
         \/ ati_fetch[i].res = "val" /\ ati_fetch[i].val <= Len(Vals)
         \/ ati_fetch[i].res = "stop" /\ ~AtiHeld(i)
         \/ AtiHeld(i)
    /\ Cardinality({i \in 1..Len(ati_fetch) : ~IsDone(ati_fetch[i])}) <= 1
    /\ (\E k \in 1..Len(ati_log) : ati_log[k].kind = "stop") =>
           Len(Vals) = SeqLen

C8_Witness ==
    /\ \E k \in 1..Len(ati_log) : ati_log[k].kind = "sentinel"
    /\ \E k \in 1..Len(ati_log) : ati_log[k].kind = "stop"
    /\ Len(Vals) = SeqLen

\* C9: a call made when the retained fetch has already completed with an
\* element returns that element at once, from no new fetch.
C9_BufferedResultReturned ==
    \A k \in 1..Len(ati_log) :
        ati_log[k].held # 0 =>
            /\ ati_log[k].kind = "val"
            /\ ati_log[k].val = ati_log[k].held
            /\ ati_log[k].t1 = ati_log[k].t0
            /\ ~ati_log[k].created

C9_Witness == \E k \in 1..Len(ati_log) : ati_log[k].held # 0

\* The first call is made at time 0 with timeout 1 on a fetch resolving at 2.
Scenario1 ==
    /\ Len(ati_log) >= 1
    /\ ati_log[1].t0 = 0 /\ ati_log[1].timeout = 1
    /\ ati_fetch[1].readyAt = 2

\* ... and the second call right after the first returned, with timeout 1.
Scenario2 ==
    /\ Scenario1
    /\ Len(ati_log) >= 2
    /\ ati_log[2].t0 = 1 /\ ati_log[2].timeout = 1

ReturnsFirst(k) == ati_log[k].kind = "val" /\ ati_log[k].val = 1

\* C10 as claimed: the first call returns the sentinel at time 1, the second
\* the element at time 2, and no later call returns it again.
C10_Original ==
    /\ Scenario1 => ati_log[1].kind = "sentinel" /\ ati_log[1].t1 = 1
    /\ Scenario2 => /\ ReturnsFirst(2)
                    /\ ati_log[2].t1 = 2
                    /\ \A k \in 3..Len(ati_log) : ~ReturnsFirst(k)

\* C10 as amended: the first call returns the sentinel at time 1; the second
\* returns at time 2 without a new fetch, the element or (its own timeout
\* expiring at the instant the fetch resolves) the sentinel; no fetch is
\* started before the element has been returned, and it is returned at most
\* once.
C10_TimedOutFetchReused ==
    /\ Scenario1 => ati_log[1].kind = "sentinel" /\ ati_log[1].t1 = 1
    /\ Scenario2 =>
         /\ ati_log[2].t1 = 2
         /\ ReturnsFirst(2) \/ ati_log[2].kind = "sentinel"
         /\ \A k \in 2..Len(ati_log) :
              ati_log[k].created => \E j \in 1..(k - 1) : ReturnsFirst(j)
         /\ Cardinality({k \in 1..Len(ati_log) : ReturnsFirst(k)}) <= 1

C10_Witness ==
    /\ Scenario2
    /\ ReturnsFirst(2)
    /\ Len(ati_log) >= 3

\* the last call of the timed iterator returned the sentinel
LastSentinel ==
    /\ ati_cons.pc = "idle"
    /\ Len(ati_log) > 0
    /\ ati_log[Len(ati_log)].kind = "sentinel"

\* C11: a timeout never cancels the underlying fetch: after a call that
\* returned the sentinel, the fetch that call awaited is the one held in
\* self.task, and it is running or completed, not cancelled; no fetch of the
\* timed iterator is ever cancelled.
C11_TimeoutKeepsFetch ==
    /\ \A i \in 1..Len(ati_fetch) : ati_fetch[i].res # "cancelled"
    /\ LastSentinel =>
         /\ ati_task # NoTask
         /\ ati_task = ati_cons.aw
         /\ \/ ati_fetch[ati_task].st = "running"
            \/ ati_fetch[ati_task].res \in {"val", "stop", "err"}

C11_Witness ==
    /\ LastSentinel
    /\ ati_task # NoTask
    /\ ati_fetch[ati_task].st = "running"

\* a step in which start() is called and changes something
StartStep ==
    /\ bg_caller'.last \in {"started", "RuntimeError"}
    /\ \/ bg_caller'.last # bg_caller.last
       \/ Len(bg_ops') # Len(bg_ops)

\* C13: start() while an operation is held fails with RuntimeError ("already
\* running"), begins no operation and leaves the held operation and the
\* task table unchanged.
C13_StartWhileHeldFails ==
    [][(bg_task # NoTask /\ StartStep) =>
          /\ bg_caller'.last = "RuntimeError"
          /\ UNCHANGED <<bg_task, bg_ops>>]_vars

C13_Witness == bg_caller.last = "RuntimeError" /\ bg_task # NoTask

\* C14: stop() on a running operation requests its cancellation, returns
\* only when the operation is done, and does not raise the cancellation: an
\* operation that ended cancelled gives a normal return.
C14_StopCancelsAndWaits ==
    \A i \in 1..Len(bg_ops) :
        bg_ops[i].how = "cancel" =>
            /\ IsDone(bg_ops[i]) \/ bg_ops[i].mc
            /\ bg_ops[i].out # "none" =>
                 /\ IsDone(bg_ops[i])
                 /\ bg_ops[i].out # "raised_cancelled"
                 /\ bg_ops[i].res = "cancelled" => bg_ops[i].out = "returned"

C14_Witness ==
    \E i \in 1..Len(bg_ops) :
        /\ bg_ops[i].how = "cancel"
        /\ bg_ops[i].res = "cancelled"
        /\ bg_ops[i].out = "returned"

\* C15: stop() on an operation that has finished yields its outcome: it
\* returns the value of an operation that succeeded and raises the failure
\* of one that failed.
C15_StopYieldsOutcome ==
    \A i \in 1..Len(bg_ops) :
        bg_ops[i].how = "result" =>
            /\ bg_ops[i].res = "ok" =>
                 /\ bg_ops[i].out = "returned"
                 /\ bg_ops[i].ret = bg_ops[i].val
            /\ bg_ops[i].res = "err" => bg_ops[i].out = "raised_err"

\* C16: after a stop() on a started task, however it ended, no operation is
\* held: an operation that a stop() has finished with is never the held one,
\* so the next start() takes its first branch.
C16_StopLeavesIdle ==
    /\ bg_caller.last \in {"returned", "raised_err", "raised_cancelled"} =>
           bg_task = NoTask
    /\ \A i \in 1..Len(bg_ops) : bg_ops[i].how # "none" => bg_task # i

C16_Witness ==
    /\ Len(bg_ops) = 2
    /\ bg_ops[1].out = "raised_err"
    /\ bg_caller.last = "started"

\* C17: stop() never raises CancelledError to its caller, whatever the state
\* of the held operation.
C17_StopNeverRaisesCancelled ==
    \A i \in 1..Len(bg_ops) : bg_ops[i].out # "raised_cancelled"

\* C18: an operation that failed with an Exception was logged by wrap, and
\* the stop() that takes it raises that failure, both when it had failed
\* before stop() and when it fails while unwinding from stop()'s cancel.
C18_FailureLoggedAndRaised ==
    \A i \in 1..Len(bg_ops) :
        bg_ops[i].res = "err" =>
            /\ bg_ops[i].logged
            /\ bg_ops[i].out # "none" => bg_ops[i].out = "raised_err"

C18_Witness ==
    /\ \E i \in 1..Len(bg_ops) :
         /\ bg_ops[i].how = "cancel"
         /\ bg_ops[i].out = "raised_err"
    /\ \E i \in 1..Len(bg_ops) :
         /\ bg_ops[i].how = "result"
         /\ bg_ops[i].out = "raised_err"

\* C19: the callback of a set(delay, callback) is invoked at most once and
\* not before setAt + delay; it is never invoked when stop() was called before
\* setAt + delay; set() while the task of an earlier set() is held raises
\* RuntimeError and replaces nothing, so every task that is not the held one
\* was taken by a stop().
C19_WaiterCallback ==
    /\ \A i \in 1..Len(w_ops) :
         /\ w_ops[i].calls <= 1
         /\ w_ops[i].calls = 1 =>
              w_ops[i].calledAt >= w_ops[i].setAt + w_ops[i].delay
         /\ (w_ops[i].how # "none"
               /\ w_ops[i].stopAt < w_ops[i].setAt + w_ops[i].delay) =>
              w_ops[i].calls = 0
         /\ i # w_task => w_ops[i].how # "none"
    /\ w_caller.last = "RuntimeError" => w_task # NoTask

C19_Witness ==
    /\ \E i \in 1..Len(w_ops) :
         /\ w_ops[i].delay > 0
         /\ w_ops[i].calls = 1
    /\ \E i \in 1..Len(w_ops) :
         /\ w_ops[i].how = "cancel"
         /\ w_ops[i].stopAt < w_ops[i].setAt + w_ops[i].delay
         /\ w_ops[i].out = "returned"
         /\ w_now >= w_ops[i].setAt + w_ops[i].delay

RECURSIVE SumFrames(_)
\* frames of a sequence of buffers
SumFrames(q) == IF Len(q) = 0 THEN 0 ELSE AudioLen(Head(q)) + SumFrames(Tail(q))

\* all buffers of the input have one format
SameFormat(q) == \A i, j \in 1..Len(q) : Compatible(q[i], q[j])

\* C20: for an input of same-format buffers of D frames in total and a chunk
\* size N >= 1, size_limit raises nothing and yields floor(D/N) chunks of N
\* frames and then one chunk of D mod N frames iff that is not zero: while it
\* runs every chunk yielded has N frames, and no chunk is ever empty.
C20_ChunkCounts ==
    SameFormat(sl_src) =>
        LET D == SumFrames(sl_src)
            N == sl_size
        IN /\ sl_pc # "ValueError"
           /\ \A k \in 1..Len(sl_out) : AudioLen(sl_out[k]) > 0
           /\ sl_pc = "run" =>
                /\ Len(sl_out) <= D \div N
                /\ \A k \in 1..Len(sl_out) : AudioLen(sl_out[k]) = N
           /\ sl_pc = "done" =>
                /\ Len(sl_out) = (D \div N) + (IF D % N # 0 THEN 1 ELSE 0)
                /\ \A k \in 1..(D \div N) : AudioLen(sl_out[k]) = N
                /\ D % N # 0 => AudioLen(sl_out[Len(sl_out)]) = D % N

C20_Witness ==
    /\ sl_pc = "done"
    /\ SameFormat(sl_src)
    /\ Len(sl_src) = 3
    /\ framewidth(sl_src[1]) = 2
    /\ sl_size = 2
    /\ SumFrames(sl_src) = 5
    /\ Len(sl_out) = 3

\* fetches of the timed iterator that ended with a failure
AtiFailed == {i \in 1..Len(ati_fetch) : ati_fetch[i].res = "err"}

\* calls of the timed iterator that raised a failure
AtiRaised == {k \in 1..Len(ati_log) : ati_log[k].kind = "err"}

C12_WitnessClosed ==
    /\ cons[1].res = "err"
    /\ closer.n > 0
    /\ gen = "None"

RECURSIVE ConcatData(_)
\* the data of a sequence of buffers, concatenated in order
ConcatData(q) ==
    IF Len(q) = 0 THEN <<>> ELSE Head(q).data \o ConcatData(Tail(q))

\* C21: the chunks yielded so far followed by the data still in buf are the
\* data of the packets taken so far, in order; when size_limit has ended the
\* chunks concatenated are the input concatenated: nothing is dropped,
\* duplicated or reordered.
C21_ChunksReconstructInput ==
    /\ sl_pc = "run" =>
         ConcatData(sl_out) \o (IF sl_buf = None THEN <<>> ELSE sl_buf[1].data)
             = ConcatData(SubSeq(sl_src, 1, sl_k - 1))
    /\ sl_pc = "done" => ConcatData(sl_out) = ConcatData(sl_src)

C21_Witness ==
    /\ sl_pc = "done"
    /\ SameFormat(sl_src)
    /\ sl_size = 2
    /\ Len(sl_out) = 2
    /\ \E i \in 1..Len(sl_src) : AudioLen(sl_src[i]) = 0
    /\ \E i \in 1..Len(sl_src) : AudioLen(sl_src[i]) = 1
    /\ \E i \in 1..Len(sl_src) : AudioLen(sl_src[i]) = 2

\* C22: whenever two input packets differ in channels, width or rate,
\* size_limit fails: it never ends normally on an input of mixed formats.
C22_MixedFormatsFail ==
    sl_pc = "done" => SameFormat(sl_src)

\* the packets rate_limit has yielded, in order
RlYielded == [i \in 1..Len(rl_out) |-> rl_out[i].pkt]

\* C23: rate_limit yields the upstream sequence: every packet once, in
\* order, nothing after upstream has ended, and it ends without raising.
C23_EmitsUpstream ==
    /\ rl_pc # "UnboundLocalError"
    /\ rl_pc = "done" => RlYielded = rl_src

\* C24 as stated: the first packet is requested at once, and each packet of
\* upstream is yielded no earlier than the duration of the packet before it
\* after that packet was yielded.
C24_Original ==
    /\ Len(rl_req) > 0 => rl_req[1] = rl_start
    /\ \A i \in 1..(Len(rl_out) - 1) :
         i + 1 <= Len(rl_src) =>
             rl_out[i + 1].at - rl_out[i].at >= duration(rl_out[i].pkt)

\* C24: the first packet is requested at once, and every yield is no
\* earlier than the start of rate_limit plus the durations of the packets
\* yielded before it.
C24_PacedFromStart ==
    /\ Len(rl_req) > 0 => rl_req[1] = rl_start
    /\ \A i \in 1..Len(rl_out) :
         rl_out[i].at >= rl_start + SumDuration(SubSeq(RlYielded, 1, i - 1))

C24_Witness ==
    /\ Len(rl_out) >= 2
    /\ duration(rl_out[1].pkt) > 0
    /\ rl_out[1].at = rl_start
    /\ rl_out[2].at = rl_start + duration(rl_out[1].pkt)

\* packets of upstream after whose yield when_to_wake has been advanced
RlAdvanced == IF rl_pc = "yielded" THEN rl_k - 2 ELSE rl_k - 1

\* C25: when_to_wake is the start time plus the durations of the packets
\* yielded and resumed from, whatever the lateness of consumer and upstream;
\* the sleep lasts to that time exactly when it lies ahead; packet i + 1 is
\* requested no earlier than the start time plus the durations of packets
\* 1..i.
C25_WakeClock ==
    /\ rl_pc \in {"fetch", "yielded", "sleeping", "done"} =>
         rl_wake = rl_start + SumDuration(SubSeq(rl_src, 1, RlAdvanced))
    /\ rl_pc = "sleeping" => Len(rl_req) = rl_k - 1
    /\ \A i \in 1..Len(rl_req) :
         rl_req[i] >= rl_start + SumDuration(SubSeq(rl_src, 1, i - 1))

\* a late consumer: the target had passed, the next packet was requested at
\* once, and the target after it is still counted from the start
C25_Witness ==
    /\ Len(rl_req) = 3
    /\ rl_req[2] > rl_start + duration(rl_src[1])
    /\ rl_req[3] = rl_req[2]
    /\ duration(rl_src[2]) > 0

\* the object the last call returned
AuResult == au_heap[au_last.rr]

\* C26: a + b of two Audio that differ in channels, width or rate raises
\* ValueError and leaves both operands as they were; otherwise the result has
\* the format of the operands, its data is the data of a followed by the data
\* of b, and it has as many frames as a and b together.  The frame counts do
\* not add up when the operands hold a part of a frame, which a slice with a
\* step produces (C28).
C26_ConcatAddsFrames ==
    au_last.op = "concat" =>
        IF Compatible(au_last.a, au_last.b)
        THEN /\ au_last.err = "none"
             /\ Compatible(AuResult, au_last.a)
             /\ AuResult.data = au_last.a.data \o au_last.b.data
             /\ AudioLen(AuResult) = AudioLen(au_last.a) + AudioLen(au_last.b)
        ELSE /\ au_last.err = "ValueError"
             /\ au_heap[au_last.ra] = au_last.a
             /\ au_heap[au_last.rb] = au_last.b

\* C27: a.combine(b) of two Audio that differ in channels, width or rate
\* raises and returns no Audio.
C27_CombineChecksFormat ==
    (au_last.op = "combine" /\ ~Compatible(au_last.a, au_last.b)) =>
        (au_last.err # "none" /\ au_last.rr = NoRef)

\* C28: the data of every Audio is a whole number of frames.
C28_WholeFrames ==
    \A r \in Refs : Len(au_heap[r].data) % framewidth(au_heap[r]) = 0

\* the frames of a, each the bytes of one frame
Frames(a) ==
    [k \in 1..AudioLen(a) |->
        SubSeq(a.data, (k - 1) * framewidth(a) + 1, k * framewidth(a))]

RECURSIVE Flatten(_)
Flatten(q) == IF Len(q) = 0 THEN <<>> ELSE Head(q) \o Flatten(Tail(q))

\* C29: a[start:stop:step] holds the frames that [start:stop:step] selects
\* from the sequence of the frames of a, in order, in the format of a.
C29_SliceSelectsFrames ==
    au_last.op = "slice" =>
        /\ Compatible(AuResult, au_last.a)
        /\ AuResult.data =
               Flatten(PySlice(Frames(au_last.a), au_last.args[1],
                               au_last.args[2], au_last.args[3]))

\* C30: after a slice, a multiplication, a concatenation, a silence, a
\* change of rate or of channels, clear() of the result leaves the data of
\* the operands as it is, and clear() of an operand leaves the data of the
\* result as it is.
C30_ResultIsNewObject ==
    (/\ au_last.op \in {"slice", "mul", "concat", "silence", "to_rate",
                        "to_mono", "to_stereo"}
     /\ au_last.rr # NoRef) =>
        \A r \in {au_last.ra, au_last.rb} :
            /\ ClearAt(au_heap, au_last.rr)[r].data = au_heap[r].data
            /\ ClearAt(au_heap, r)[au_last.rr].data = AuResult.data

C32_CloseEndsCancelRaises ==
    /\ (cons[1].pc = "idle" /\ closer.pending /\ cons[1].aw = closer.aw) =>
           cons[1].res = "stop"
    /\ (cons[1].pc = "idle" /\ cons[1].cancel # "no" /\ gen # "None") =>
           /\ cons[1].res = "cancelled"
           /\ IsDone(fetch[cons[1].aw])
           /\ cons[1].cancel = "waiter" => fetch[cons[1].aw].res = "cancelled"
           /\ task.id = NoTask
           /\ gen = "gen"

\* both cases have happened: a cancelled consumer on an open wrapper resumed,
\* and, later, a consumer that waited when aclose() was called resumed
C32_Witness ==
    /\ cons[1].pc = "idle" /\ closer.pending /\ cons[1].aw = closer.aw
    /\ cons[1].res = "stop"
    /\ \E i \in 1..Len(fetch) : i # closer.aw /\ fetch[i].res = "cancelled"

\* C33: on an upstream of no packets rate_limit yields nothing and ends
\* without raising.
C33_EmptyUpstreamEnds ==
    (rl_pc # "new" /\ Len(rl_src) = 0) =>
        /\ Len(rl_out) = 0
        /\ rl_pc \in {"fetch", "done"}

\* C34: at most one fetch of the underlying iterator is running, and a
\* running fetch is the one the timed iterator awaits or will await next,
\* also after calls of __anext__ that ended by the cancellation of the
\* consumer.
C34_OneFetchHeld ==
    /\ Cardinality({i \in 1..Len(ati_fetch) : ati_fetch[i].st = "running"}) <= 1
    /\ \A i \in 1..Len(ati_fetch) : ati_fetch[i].st = "running" => AtiHeld(i)

\* the operation of the scope that has been left
ScopeOp == bg_ops[bg_caller.aw]

\* C35 as stated: when the scope has been left the operation is done; an
\* error of the with block is what leaves the scope when the operation was
\* still running at the exit; the failure of an operation that had finished
\* is raised at the exit.
C35_Original ==
    ScopeLeft =>
        /\ IsDone(ScopeOp)
        /\ (bg_caller.body = "err" /\ ScopeOp.how = "cancel") =>
               bg_caller.last = "returned"
        /\ (ScopeOp.how = "result" /\ ScopeOp.res = "err") =>
               bg_caller.last = "raised_err"

\* C35: when the scope has been left the operation is done.  stop() raises
\* the failure of the operation, whether it failed before the exit or while
\* it was being cancelled, and CancelledError for an operation that had
\* ended cancelled before the exit; otherwise stop() returns and the scope
\* is left as the with block ended, with its error if it raised one.
C35_ScopeStopsOperation ==
    ScopeLeft =>
        /\ IsDone(ScopeOp)
        /\ bg_caller.last =
               IF ScopeOp.res = "err" THEN "raised_err"
               ELSE IF ScopeOp.how = "result" /\ ScopeOp.res = "cancelled"
               THEN "raised_cancelled"
               ELSE "returned"

C35_Witness ==
    /\ ScopeLeft
    /\ bg_caller.body = "err"
    /\ ScopeOp.how = "cancel"
    /\ ScopeOp.res = "cancelled"
    /\ bg_caller.last = "returned"

\* a step in which set() is called and changes something
SetStep ==
    /\ w_caller'.last \in {"started", "RuntimeError"}
    /\ \/ w_caller'.last # w_caller.last
       \/ Len(w_ops') # Len(w_ops)

\* C36: the end of the held task does not make the Waiter idle: a set()
\* (that is, start()) while the held task is done raises RuntimeError and
\* changes nothing, and the held task is given up only by a stop().
C36_DoneTaskStaysHeld ==
    [][/\ (w_task # NoTask /\ IsDone(w_ops[w_task]) /\ SetStep) =>
             /\ w_caller'.last = "RuntimeError"
             /\ UNCHANGED <<w_task, w_ops>>
       /\ (w_task # NoTask /\ w_task' # w_task) =>
             /\ w_task' = NoTask
             /\ w_ops[w_task].how = "none"
             /\ w_ops'[w_task].how # "none"]_vars

C36_Witness ==
    /\ w_task # NoTask
    /\ IsDone(w_ops[w_task])
    /\ w_ops[w_task].calls = 1
    /\ w_caller.last = "RuntimeError"

\* C37: stop() on a BackgroundTask that holds no task, never started or
\* stopped before, raises an error (AttributeError), returns nothing, and
\* the BackgroundTask still holds no task; no operation is touched.
C37_StopWhenIdleFails ==
    [][(/\ bg_task = NoTask
        /\ bg_caller.pc = "idle"
        /\ bg_caller' # bg_caller
        /\ bg_caller'.last # "started") =>
           /\ bg_caller'.last = "AttributeError"
           /\ bg_caller'.pc = "idle"
           /\ bg_task' = NoTask
           /\ bg_ops' = bg_ops]_vars

C37_Witness ==
    /\ bg_caller.last = "AttributeError"
    /\ bg_task = NoTask
    /\ Len(bg_ops) = 1
    /\ bg_ops[1].how # "none"

\* C38: a task that is cancelled while its stop() or its aclose() awaits
\* the held task has CancelledError raised out of that call.
C38_CallerCancelDelivered ==
    [][/\ (bg_caller.pc = "awaiting" /\ bg_caller.cancel # "no"
           /\ bg_caller'.pc = "idle") =>
              bg_caller'.last = "raised_cancelled"
       /\ (closer.pc = "awaiting" /\ closer.cancel # "no"
           /\ closer'.pc # "awaiting") =>
              closer'.exc = "CancelledError"]_vars

\* C39: for every finite input and every size >= 1, size_limit ends (it
\* returns, or raises for packets of different formats) after finitely many
\* chunks, and every turn of its while loop leaves a shorter buf.
C39_Terminates ==
    /\ (sl_pc = "run") ~> (sl_pc \in {"done", "ValueError"})
    /\ [][(sl_pc = "run" /\ sl_pc' = "run" /\ Len(sl_out') > Len(sl_out)) =>
             AudioLen(sl_buf'[1]) < AudioLen(sl_buf[1])]_vars

\* one packet of two frames has gone through two turns of the while loop
C39_Witness ==
    /\ sl_pc = "done"
    /\ sl_size = 1
    /\ Len(sl_src) = 1
    /\ framewidth(sl_src[1]) = 2
    /\ Len(sl_out) = 2

\* the places in rg_log where the initializer of registration i was called
InitCalls(i, ok) ==
    {p \in DOMAIN rg_log : rg_log[p] = InitEvent(i, ok)}

\* C40: for every skill registered with an initializer, named or not, the
\* initializer returns at most once, it has returned before the handler of the
\* skill is first called, and an initializer whose last call raised is still
\* in self.initializers.
C40_OneTimeInitialization ==
    \A i \in DOMAIN rg_reg :
        rg_reg[i].init =>
            /\ Cardinality(InitCalls(i, TRUE)) <= 1
            /\ \A p \in DOMAIN rg_log :
                   rg_log[p] = RunEvent(i) =>
                       \E q \in InitCalls(i, TRUE) : q < p
            /\ (/\ InitCalls(i, FALSE) # {}
                /\ \A q \in InitCalls(i, TRUE) :
                       \E p \in InitCalls(i, FALSE) : p > q)
                   => \E e \in DOMAIN rg_initializers :
                          rg_initializers[e].val = i

====
